---- MODULE Spec2Model ----
(***************************************************************************)
(* Cologne phonetics ("Koelner Phonetik") encoder of the cologne_codes     *)
(* crate: the byte-wise resolver (macro iter!) and its three sinks, the    *)
(* Vec<CologneCode> sink, the nibble-packed CologneVec and the String sink.*)
(*                                                                         *)
(* A driver encodes one input with each sink in turn, decodes the packed   *)
(* result with internal_iter and rebuilds a CologneVec from the list       *)
(* result with from_codes.  Every call is executed byte by byte.           *)
(***************************************************************************)
EXTENDS Integers, Sequences, FiniteSets

(***************************************************************************)
(* Bounds of the explored inputs                                           *)
(***************************************************************************)
\* longest input over the wide alphabet BytesWide
MaxLenWide == 3
\* longest input over the small alphabet BytesDeep
MaxLenDeep == 5

(***************************************************************************)
(* Program constants                                                       *)
(***************************************************************************)
GERMAN_SPECIAL_CHAR_FIRST_BYTE == 195
GERMAN_AE_SECOND_BYTE == 164
GERMAN_OE_SECOND_BYTE == 182
GERMAN_UE_SECOND_BYTE == 188
GERMAN_SZ_SECOND_BYTE == 159
UNCERTAIN_X == 13

\* enum CologneCode, by its #[repr(u8)] tag
Class0 == 0
Class1 == 1
Class2 == 2
Class3 == 3
Class4 == 4
Class5 == 5
Class6 == 6
Class7 == 7
Class8 == 8
Space == 14
CologneCode == {Class0, Class1, Class2, Class3, Class4, Class5, Class6, Class7, Class8, Space}

\* struct Idx: alphabet indices
IdxA == 0
IdxC == 2
IdxD == 3
IdxH == 7
IdxK == 10
IdxL == 11
IdxO == 14
IdxP == 15
IdxQ == 16
IdxR == 17
IdxS == 18
IdxT == 19
IdxU == 20
IdxX == 23
IdxZ == 25
IdxSPACE == 26

\* Option::None of an Option<CologneCode>
None == -1
\* a value that is not a CologneCode: the result of transmuting an invalid tag,
\* or of an unchecked read outside the buffer (undefined behaviour)
Poison == -2

\* a variant of the table that gives Q the class of C before a break
CHARACTER_TO_CODE_q8 ==
    << 0, 1, 9, 10, 0, 3, 4, 11, 0, 0, 4, 5, 6,
       6, 0, 12, 8, 7, 8, 10, 0, 3, 3, UNCERTAIN_X, 0, 8, 14 >>

\* const CHARACTER_TO_CODE: [u8; 27], here indexed from 1
CHARACTER_TO_CODE ==
    << 0, 1, 9, 10, 0, 3, 4, 11, 0, 0, 4, 5, 6,
       6, 0, 12, 4, 7, 8, 10, 0, 3, 3, UNCERTAIN_X, 0, 8, 14 >>

(***************************************************************************)
(* u8 arithmetic                                                           *)
(***************************************************************************)
RECURSIVE BitAnd(_, _)
BitAnd(a, b) ==
    IF a = 0 \/ b = 0 THEN 0
    ELSE (IF a % 2 = 1 /\ b % 2 = 1 THEN 1 ELSE 0) + 2 * BitAnd(a \div 2, b \div 2)

RECURSIVE BitOr(_, _)
BitOr(a, b) ==
    IF a = 0 THEN b
    ELSE IF b = 0 THEN a
    ELSE (IF a % 2 = 1 \/ b % 2 = 1 THEN 1 ELSE 0) + 2 * BitOr(a \div 2, b \div 2)

\* x << 4 and x >> 4 on a u8
Shl4(x) == (x * 16) % 256
Shr4(x) == x \div 16

\* u8::wrapping_sub
wrapping_sub(a, b) == (a - b + 256) % 256

(***************************************************************************)
(* Letter classifier                                                       *)
(***************************************************************************)
\* a variant that forgets to clear the lowercase bit
lowercase_b_nomask(b) ==
    IF b < 65 \/ (b > 90 /\ b < 97) \/ b > 122
    THEN 26
    ELSE wrapping_sub(b, 65)

\* a variant whose upper range check is off by one
lowercase_b_offbyone(b) ==
    IF b < 65 \/ (b > 90 /\ b < 97) \/ b >= 122
    THEN 26
    ELSE BitAnd(wrapping_sub(b, 65), 223)

lowercase_b(b) ==
    IF b < 65 \/ (b > 90 /\ b < 97) \/ b > 122
    THEN 26
    ELSE BitAnd(wrapping_sub(b, 65), 223)

\* mem::transmute of a tag to the enum: only the ten tags are values of it
nibble_to_cologne(b) == IF b \in CologneCode THEN b ELSE Poison

as_char(c) ==
    CASE c = Class0 -> "0" [] c = Class1 -> "1" [] c = Class2 -> "2"
      [] c = Class3 -> "3" [] c = Class4 -> "4" [] c = Class5 -> "5"
      [] c = Class6 -> "6" [] c = Class7 -> "7" [] c = Class8 -> "8"
      [] c = Space -> " "

\* a variant that puts the new index in front
array_slide_front(arr, val) == << val, arr[1] >>

\* a variant that overwrites slot 1 without moving it to slot 0
array_slide_noshift(arr, val) == << arr[1], val >>

\* array_slide!: the window after sliding val in
array_slide(arr, val) == << arr[2], val >>

(***************************************************************************)
(* List sink: Vec<CologneCode>                                             *)
(* A push returns the sink and whether it reached an abort point.          *)
(***************************************************************************)
\* a variant that overwrites a last Class0 also where it is the only element
cologne_code_push_short(outbuf, code) ==
    LET n == Len(outbuf)
        tail == SubSeq(outbuf, (IF n >= 2 THEN n - 2 ELSE 0) + 1, n)
    IN
    IF n > 0 /\ outbuf[n] = code
    THEN [out |-> outbuf, fail |-> "none"]
    ELSE IF tail = << Space, Class0 >>
         THEN [out |-> Append(outbuf, code), fail |-> "none"]
         ELSE IF Len(tail) >= 1 /\ tail[Len(tail)] = Class0
              THEN [out |-> [outbuf EXCEPT ![n] = code], fail |-> "none"]
              ELSE [out |-> Append(outbuf, code), fail |-> "none"]

cologne_code_push(outbuf, code) ==
    LET n == Len(outbuf)
        \* outbuf.get(len.saturating_sub(2)..len)
        tail == SubSeq(outbuf, (IF n >= 2 THEN n - 2 ELSE 0) + 1, n)
    IN
    IF n > 0 /\ outbuf[n] = code
    THEN [out |-> outbuf, fail |-> "none"]
    ELSE IF tail = << Space, Class0 >>
         THEN [out |-> Append(outbuf, code), fail |-> "none"]
         ELSE IF Len(tail) = 2 /\ tail[2] = Class0
              THEN IF n = 0
                   THEN [out |-> outbuf, fail |-> "panic"]
                   ELSE [out |-> [outbuf EXCEPT ![n] = code], fail |-> "none"]
              ELSE [out |-> Append(outbuf, code), fail |-> "none"]

\* Vec::pop, result dropped
\* a variant that takes the first element
pop_front(outbuf) == IF Len(outbuf) = 0 THEN outbuf ELSE SubSeq(outbuf, 2, Len(outbuf))

pop(outbuf) == IF Len(outbuf) = 0 THEN outbuf ELSE SubSeq(outbuf, 1, Len(outbuf) - 1)

(***************************************************************************)
(* Packed sink: CologneVec, a record [len, inner]                          *)
(***************************************************************************)
new == [len |-> 0, inner |-> << >>]

byte_bound(len) == len % 2 = 0

\* a variant that compares the whole last byte at either length
last_is_whole(self, code) ==
    LET code_hi == Shl4(code)
        n == Len(self.inner)
    IN
    IF n > 0 THEN self.inner[n] = code_hi ELSE FALSE

last_is(self, code) ==
    LET code_hi == Shl4(code)
        n == Len(self.inner)
    IN
    IF n > 0
    THEN IF byte_bound(self.len)
         THEN Shl4(self.inner[n]) = code_hi
         ELSE self.inner[n] = code_hi
    ELSE FALSE

last_byte(self) ==
    LET n == Len(self.inner) IN
    IF byte_bound(self.len)
    THEN IF n > 0 THEN self.inner[n] ELSE 0
    ELSE IF n = 0 THEN Poison
         ELSE LET last == Shr4(self.inner[n]) IN
              IF self.len = 1 THEN last
              ELSE IF n < 2 THEN Poison
                   ELSE BitOr(Shl4(self.inner[n - 1]), last)

\* a variant that stores the class of an even index unshifted
push_raw_noshift(self, code) ==
    LET n == Len(self.inner) IN
    [len |-> self.len + 1,
     inner |-> IF byte_bound(self.len)
               THEN Append(self.inner, code)
               ELSE IF n > 0
                    THEN [self.inner EXCEPT ![n] = BitOr(@, code)]
                    ELSE self.inner]

push_raw(self, code) ==
    LET n == Len(self.inner) IN
    [len |-> self.len + 1,
     inner |-> IF byte_bound(self.len)
               THEN Append(self.inner, Shl4(code))
               ELSE IF n > 0
                    THEN [self.inner EXCEPT ![n] = BitOr(@, code)]
                    ELSE self.inner]

\* a variant with the two halves of the byte exchanged
replace_last_swapped(self, code) ==
    LET n == Len(self.inner) IN
    IF n > 0
    THEN IF byte_bound(self.len)
         THEN [self EXCEPT !.inner[n] = BitOr(BitAnd(@, 15), Shl4(code))]
         ELSE [self EXCEPT !.inner[n] = BitOr(BitAnd(@, 240), code)]
    ELSE self

replace_last(self, code) ==
    LET n == Len(self.inner) IN
    IF n > 0
    THEN IF byte_bound(self.len)
         THEN [self EXCEPT !.inner[n] = BitOr(BitAnd(@, 240), code)]
         ELSE [self EXCEPT !.inner[n] = BitOr(BitAnd(@, 15), Shl4(code))]
    ELSE self

\* a variant that overwrites a last Class0 from three stored classes on
push_from_three(self, code) ==
    IF last_is(self, code)
    THEN [out |-> self, fail |-> "none"]
    ELSE LET last == last_byte(self) IN
         IF last = Poison
         THEN [out |-> self, fail |-> "ub"]
         ELSE IF self.len >= 3 /\ BitAnd(last, 15) = 0 /\ Shr4(last) # Space
              THEN [out |-> replace_last(self, code), fail |-> "none"]
              ELSE [out |-> push_raw(self, code), fail |-> "none"]

push(self, code) ==
    IF last_is(self, code)
    THEN [out |-> self, fail |-> "none"]
    ELSE LET last == last_byte(self) IN
         IF last = Poison
         THEN [out |-> self, fail |-> "ub"]
         ELSE IF self.len >= 2 /\ BitAnd(last, 15) = 0 /\ Shr4(last) # Space
              THEN [out |-> replace_last(self, code), fail |-> "none"]
              ELSE [out |-> push_raw(self, code), fail |-> "none"]

\* a variant that leaves the dropped class in the low half of the last byte
finish_nomask(self) ==
    LET n == Len(self.inner)
        lb == last_byte(self)
    IN
    IF n = 0 \/ lb = BitOr(Shl4(Space), Class0)
    THEN self
    ELSE IF byte_bound(self.len)
         THEN LET nib == BitAnd(self.inner[n], 15) IN
              IF nib = Class0 \/ nib = Space
              THEN [self EXCEPT !.len = self.len - 1]
              ELSE self
         ELSE LET nib == Shr4(self.inner[n]) IN
              IF nib = Class0 \/ nib = Space
              THEN [len |-> self.len - 1, inner |-> SubSeq(self.inner, 1, n - 1)]
              ELSE self

\* a variant that also drops the Class0 of a tail [Space, Class0]
finish_any_tail(self) ==
    LET n == Len(self.inner) IN
    IF n = 0
    THEN self
    ELSE IF byte_bound(self.len)
         THEN LET nib == BitAnd(self.inner[n], 15) IN
              IF nib = Class0 \/ nib = Space
              THEN [len |-> self.len - 1,
                    inner |-> [self.inner EXCEPT ![n] = BitAnd(@, 240)]]
              ELSE self
         ELSE LET nib == Shr4(self.inner[n]) IN
              IF nib = Class0 \/ nib = Space
              THEN [len |-> self.len - 1, inner |-> SubSeq(self.inner, 1, n - 1)]
              ELSE self

\* a variant that drops a trailing Class0 but keeps a trailing Space
finish_keep_space(self) ==
    LET n == Len(self.inner)
        lb == last_byte(self)
    IN
    IF n = 0 \/ lb = BitOr(Shl4(Space), Class0)
    THEN self
    ELSE IF byte_bound(self.len)
         THEN IF BitAnd(self.inner[n], 15) = Class0
              THEN [len |-> self.len - 1,
                    inner |-> [self.inner EXCEPT ![n] = BitAnd(@, 240)]]
              ELSE self
         ELSE IF Shr4(self.inner[n]) = Class0
              THEN [len |-> self.len - 1, inner |-> SubSeq(self.inner, 1, n - 1)]
              ELSE self

finish(self) ==
    LET n == Len(self.inner)
        lb == last_byte(self)
    IN
    IF n = 0
    THEN self
    ELSE IF lb = BitOr(Shl4(Space), Class0)
         THEN self
         ELSE IF byte_bound(self.len)
              THEN LET nib == BitAnd(self.inner[n], 15) IN
                   IF nib = Class0 \/ nib = Space
                   THEN [len |-> self.len - 1,
                         inner |-> [self.inner EXCEPT ![n] = BitAnd(@, 240)]]
                   ELSE self
              ELSE LET nib == Shr4(self.inner[n]) IN
                   IF nib = Class0 \/ nib = Space
                   THEN [len |-> self.len - 1, inner |-> SubSeq(self.inner, 1, n - 1)]
                   ELSE self

RECURSIVE push_raw_all(_, _, _)
\* the loop of from_codes, from index k on
push_raw_all(me, codes, k) ==
    IF k > Len(codes) THEN me ELSE push_raw_all(push_raw(me, codes[k]), codes, k + 1)

from_codes(codes) == finish(push_raw_all(new, codes, 1))

RECURSIVE iter_full_bytes(_, _)
\* the first loop of internal_iter: both nibbles of the bytes k .. Len - 1
iter_full_bytes(inner, k) ==
    IF k > Len(inner) - 1
    THEN << >>
    ELSE << nibble_to_cologne(Shr4(inner[k])), nibble_to_cologne(BitAnd(inner[k], 15)) >>
         \o iter_full_bytes(inner, k + 1)

\* the classes internal_iter hands to a visitor that never breaks, in order
internal_iter(self) ==
    LET n == Len(self.inner) IN
    IF n = 0
    THEN << >>
    ELSE iter_full_bytes(self.inner, 1)
         \o (IF byte_bound(self.len)
             THEN << nibble_to_cologne(Shr4(self.inner[n])),
                     nibble_to_cologne(BitAnd(self.inner[n], 15)) >>
             ELSE << nibble_to_cologne(Shr4(self.inner[n])) >>)

\* the classes internal_iter has handed over when the visitor f breaks at its
\* k-th call, from byte j on, n calls made so far; k = 0 is an f that never breaks
RECURSIVE visit_full_bytes(_, _, _, _)
visit_full_bytes(inner, j, n, k) ==
    IF j > Len(inner) - 1
    THEN [seen |-> << >>, brk |-> FALSE]
    ELSE LET hi == nibble_to_cologne(Shr4(inner[j]))
             lo == nibble_to_cologne(BitAnd(inner[j], 15))
         IN
         IF n + 1 = k
         THEN [seen |-> << hi >>, brk |-> TRUE]
         ELSE IF n + 2 = k
              THEN [seen |-> << hi, lo >>, brk |-> TRUE]
              ELSE LET r == visit_full_bytes(inner, j + 1, n + 2, k) IN
                   [seen |-> << hi, lo >> \o r.seen, brk |-> r.brk]

\* a variant that hands over both halves of the last byte at any len
internal_iter_break_padded(self, k) ==
    LET m == Len(self.inner)
        r == visit_full_bytes(self.inner, 1, 0, k)
    IN
    IF r.brk \/ m = 0
    THEN r.seen
    ELSE LET hi == nibble_to_cologne(Shr4(self.inner[m]))
             lo == nibble_to_cologne(BitAnd(self.inner[m], 15))
         IN
         IF Len(r.seen) + 1 = k THEN r.seen \o << hi >> ELSE r.seen \o << hi, lo >>

\* the calls of f made by self.internal_iter(f), f breaking at its k-th call
internal_iter_break(self, k) ==
    LET m == Len(self.inner)
        r == visit_full_bytes(self.inner, 1, 0, k)
    IN
    IF r.brk \/ m = 0
    THEN r.seen
    ELSE LET hi == nibble_to_cologne(Shr4(self.inner[m]))
             lo == nibble_to_cologne(BitAnd(self.inner[m], 15))
         IN
         IF byte_bound(self.len)
         THEN IF Len(r.seen) + 1 = k THEN r.seen \o << hi >> ELSE r.seen \o << hi, lo >>
         ELSE r.seen \o << hi >>

with_capacity(cap) == [len |-> 0, inner |-> << >>]

\* inner.clear() empties the storage handed in
from_inner(inner) == [len |-> 0, inner |-> SubSeq(inner, 1, 0)]

\* a variant that resets len and keeps the bytes
clear_len_only(self) == [len |-> 0, inner |-> self.inner]

clear(self) == [len |-> 0, inner |-> SubSeq(self.inner, 1, 0)]

\* CologneVec::last, None for Option::None
vec_last(self) ==
    LET m == Len(self.inner) IN
    IF byte_bound(self.len)
    THEN IF self.len = 0
         THEN None
         ELSE IF m = 0 THEN Poison ELSE nibble_to_cologne(BitAnd(self.inner[m], 15))
    ELSE IF m = 0 THEN Poison ELSE nibble_to_cologne(Shr4(self.inner[m]))

(***************************************************************************)
(* String sink: CologneString, a record [last, inner]; last is the pair of *)
(* buffered classes, inner the characters already written                  *)
(***************************************************************************)
\* a variant that looks at the second buffered class only
cs_last_second(self) == self.last[2]

\* CologneString::last
cs_last(self) == IF self.last[2] # None THEN self.last[2] ELSE self.last[1]

\* a variant that overwrites a buffered Class0 also after Space
cologne_code_push_char_noexc(outbuf, code) ==
    LET a == outbuf.last[1]
        b == outbuf.last[2]
    IN
    IF cs_last(outbuf) # None /\ cs_last(outbuf) = code
    THEN [out |-> outbuf, fail |-> "none"]
    ELSE IF a # None /\ b = Class0
         THEN [out |-> [outbuf EXCEPT !.last = << a, code >>], fail |-> "none"]
         ELSE IF a # None /\ b # None
              THEN [out |-> [last |-> << b, code >>,
                             inner |-> Append(outbuf.inner, as_char(a))],
                    fail |-> "none"]
              ELSE IF a # None
                   THEN [out |-> [outbuf EXCEPT !.last = << a, code >>], fail |-> "none"]
                   ELSE [out |-> [outbuf EXCEPT !.last = << code, None >>], fail |-> "none"]

cologne_code_push_char(outbuf, code) ==
    LET a == outbuf.last[1]
        b == outbuf.last[2]
    IN
    IF cs_last(outbuf) # None /\ cs_last(outbuf) = code
    THEN [out |-> outbuf, fail |-> "none"]
    ELSE IF a # None /\ b = Class0 /\ a # Space
         THEN [out |-> [outbuf EXCEPT !.last = << a, code >>], fail |-> "none"]
         ELSE IF a # None /\ b # None
              THEN [out |-> [last |-> << b, code >>,
                             inner |-> Append(outbuf.inner, as_char(a))],
                    fail |-> "none"]
              ELSE IF a # None /\ b = None
                   THEN [out |-> [outbuf EXCEPT !.last = << a, code >>], fail |-> "none"]
                   ELSE IF a = None /\ b = None
                        THEN [out |-> [outbuf EXCEPT !.last = << code, None >>],
                              fail |-> "none"]
                        ELSE [out |-> outbuf, fail |-> "panic"]

\* a variant without the first arm: a buffered trailing Space is written too
utf8_to_cologne_codes_string_tail_both(outbuf) ==
    LET a == outbuf.last[1]
        b == outbuf.last[2]
    IN
    IF a = Space /\ b = Class0
    THEN outbuf.inner \o << as_char(a), as_char(b) >>
    ELSE IF a # None /\ b # None
         THEN IF b # Class0
              THEN outbuf.inner \o << as_char(a), as_char(b) >>
              ELSE Append(outbuf.inner, as_char(a))
         ELSE IF a = Space /\ b = None
              THEN outbuf.inner
              ELSE IF a # None /\ b = None
                   THEN Append(outbuf.inner, as_char(a))
                   ELSE outbuf.inner

\* the match on outbuf.last that ends utf8_to_cologne_codes_string:
\* the characters of the String afterwards
utf8_to_cologne_codes_string_tail(outbuf) ==
    LET a == outbuf.last[1]
        b == outbuf.last[2]
    IN
    IF a # None /\ b = Space
    THEN Append(outbuf.inner, as_char(a))
    ELSE IF a = Space /\ b = Class0
         THEN outbuf.inner \o << as_char(a), as_char(b) >>
         ELSE IF a # None /\ b # None
              THEN IF b # Class0
                   THEN outbuf.inner \o << as_char(a), as_char(b) >>
                   ELSE Append(outbuf.inner, as_char(a))
              ELSE IF a = Space /\ b = None
                   THEN outbuf.inner
                   ELSE IF a # None /\ b = None
                        THEN Append(outbuf.inner, as_char(a))
                        ELSE outbuf.inner

(***************************************************************************)
(* Resolver: macro iter!                                                   *)
(* st is the record of the caller's locals utf8, last, prev_uncertain and  *)
(* its sink out; fail records an abort point that was reached ("panic" for *)
(* unreachable!, "ub" for unreachable_unchecked); emitted logs every push  *)
(* as << alphabet index of the letter it encodes, class >>.                *)
(***************************************************************************)
\* the macro argument $cologne_code_push: the push of the caller's sink
cologne_code_push_to(sink, outbuf, code) ==
    CASE sink = "vec" -> cologne_code_push(outbuf, code)
      [] sink = "packed" -> push(outbuf, code)
      [] sink = "string" -> cologne_code_push_char(outbuf, code)

emit(st, letter, code, sink) ==
    IF st.fail # "none"
    THEN st
    ELSE LET r == cologne_code_push_to(sink, st.out, code) IN
         [st EXCEPT !.out = r.out, !.fail = r.fail,
                    !.emitted = Append(@, << letter, code >>)]

\* the match on the second byte of a german character; None for break 'blk
german_second_byte(b) ==
    CASE b = GERMAN_AE_SECOND_BYTE -> 65
      [] b = GERMAN_OE_SECOND_BYTE -> 79
      [] b = GERMAN_UE_SECOND_BYTE -> 85
      [] b = GERMAN_SZ_SECOND_BYTE -> 90
      [] OTHER -> None

\* a variant without the arm for C at the start of a word
resolve_uncertain_nostart(st, b, sink) ==
    LET l0 == st.last[1]
        l1 == st.last[2]
    IN
    IF l1 = IdxP /\ b = IdxH THEN emit(st, l1, Class3, sink)
    ELSE IF l1 = IdxP THEN emit(st, l1, Class1, sink)
    ELSE IF l1 \in {IdxD, IdxT} /\ b \in {IdxC, IdxS, IdxZ} THEN emit(st, l1, Class8, sink)
    ELSE IF l1 \in {IdxD, IdxT} THEN emit(st, l1, Class2, sink)
    ELSE IF l0 \in {IdxS, IdxZ} /\ l1 = IdxC THEN emit(st, l1, Class8, sink)
    ELSE IF l1 = IdxC /\ b \in {IdxA, IdxH, IdxK, IdxO, IdxQ, IdxU, IdxX}
         THEN emit(st, l1, Class4, sink)
    ELSE IF l0 = IdxSPACE /\ l1 = IdxC THEN emit(st, l1, Class8, sink)
    ELSE IF l1 = IdxC THEN emit(st, l1, Class8, sink)
    ELSE [st EXCEPT !.fail = "panic"]

\* a variant without the arm for P in front of H
resolve_uncertain_noph(st, b, sink) ==
    LET l0 == st.last[1]
        l1 == st.last[2]
    IN
    IF l1 = IdxP THEN emit(st, l1, Class1, sink)
    ELSE IF l1 \in {IdxD, IdxT} /\ b \in {IdxC, IdxS, IdxZ} THEN emit(st, l1, Class8, sink)
    ELSE IF l1 \in {IdxD, IdxT} THEN emit(st, l1, Class2, sink)
    ELSE IF l0 = IdxSPACE /\ l1 = IdxC
            /\ b \in {IdxA, IdxH, IdxK, IdxL, IdxO, IdxQ, IdxR, IdxU, IdxX}
         THEN emit(st, l1, Class4, sink)
    ELSE IF l0 \in {IdxS, IdxZ} /\ l1 = IdxC THEN emit(st, l1, Class8, sink)
    ELSE IF l1 = IdxC /\ b \in {IdxA, IdxH, IdxK, IdxO, IdxQ, IdxU, IdxX}
         THEN emit(st, l1, Class4, sink)
    ELSE IF l0 = IdxSPACE /\ l1 = IdxC THEN emit(st, l1, Class8, sink)
    ELSE IF l1 = IdxC THEN emit(st, l1, Class8, sink)
    ELSE [st EXCEPT !.fail = "panic"]

\* the match ($last[0], $last[1], b) on a pending uncertain letter
resolve_uncertain(st, b, sink) ==
    LET l0 == st.last[1]
        l1 == st.last[2]
    IN
    IF l1 = IdxP /\ b = IdxH THEN emit(st, l1, Class3, sink)
    ELSE IF l1 = IdxP THEN emit(st, l1, Class1, sink)
    ELSE IF l1 \in {IdxD, IdxT} /\ b \in {IdxC, IdxS, IdxZ} THEN emit(st, l1, Class8, sink)
    ELSE IF l1 \in {IdxD, IdxT} THEN emit(st, l1, Class2, sink)
    ELSE IF l0 = IdxSPACE /\ l1 = IdxC
            /\ b \in {IdxA, IdxH, IdxK, IdxL, IdxO, IdxQ, IdxR, IdxU, IdxX}
         THEN emit(st, l1, Class4, sink)
    ELSE IF l0 \in {IdxS, IdxZ} /\ l1 = IdxC THEN emit(st, l1, Class8, sink)
    ELSE IF l1 = IdxC /\ b \in {IdxA, IdxH, IdxK, IdxO, IdxQ, IdxU, IdxX}
         THEN emit(st, l1, Class4, sink)
    ELSE IF l0 = IdxSPACE /\ l1 = IdxC THEN emit(st, l1, Class8, sink)
    ELSE IF l1 = IdxC THEN emit(st, l1, Class8, sink)
    ELSE [st EXCEPT !.fail = "panic"]

\* a variant that leaves the silent H pending
classify_h_pending(st, b, sink) ==
    IF b \notin 0..26
    THEN [st EXCEPT !.fail = "ub"]
    ELSE LET res == CHARACTER_TO_CODE[b + 1] IN
         IF res \in 0..8
         THEN emit(st, b, nibble_to_cologne(res), sink)
         ELSE IF res = UNCERTAIN_X
              THEN IF st.last[2] \in {IdxC, IdxK, IdxQ}
                   THEN emit(st, b, Class8, sink)
                   ELSE emit(emit(st, b, Class4, sink), b, Class8, sink)
              ELSE IF res = 14
                   THEN emit(st, b, Space, sink)
                   ELSE [st EXCEPT !.prev_uncertain = TRUE]

\* a variant that gives X both classes behind any letter
classify_x48(st, b, sink) ==
    IF b \notin 0..26
    THEN [st EXCEPT !.fail = "ub"]
    ELSE LET res == CHARACTER_TO_CODE[b + 1] IN
         IF res \in 0..8
         THEN emit(st, b, nibble_to_cologne(res), sink)
         ELSE IF res = UNCERTAIN_X
              THEN emit(emit(st, b, Class4, sink), b, Class8, sink)
              ELSE IF res = 11
                   THEN st
                   ELSE IF res = 14
                        THEN emit(st, b, Space, sink)
                        ELSE [st EXCEPT !.prev_uncertain = TRUE]

\* the table lookup and the match on its result
classify(st, b, sink) ==
    IF b \notin 0..26
    THEN [st EXCEPT !.fail = "ub"]
    ELSE LET res == CHARACTER_TO_CODE[b + 1] IN
         IF res \in 0..8
         THEN emit(st, b, nibble_to_cologne(res), sink)
         ELSE IF res = UNCERTAIN_X
              THEN IF st.last[2] \in {IdxC, IdxK, IdxQ}
                   THEN emit(st, b, Class8, sink)
                   ELSE emit(emit(st, b, Class4, sink), b, Class8, sink)
              ELSE IF res = 11
                   THEN st
                   ELSE IF res = 14
                        THEN emit(st, b, Space, sink)
                        ELSE [st EXCEPT !.prev_uncertain = TRUE]

\* a variant in which a byte above 0x7F enters the lookback window as a break
iter_nonascii_slides(byte, st, sink) ==
    IF byte > 127
    THEN [st EXCEPT !.utf8 = (byte = GERMAN_SPECIAL_CHAR_FIRST_BYTE),
                    !.last = array_slide(@, IdxSPACE)]
    ELSE IF st.utf8 /\ german_second_byte(byte) = None
         THEN [st EXCEPT !.utf8 = FALSE]
         ELSE LET b == lowercase_b(IF st.utf8 THEN german_second_byte(byte) ELSE byte)
                  s0 == [st EXCEPT !.utf8 = FALSE]
                  s1 == IF s0.prev_uncertain
                        THEN resolve_uncertain([s0 EXCEPT !.prev_uncertain = FALSE], b, sink)
                        ELSE s0
                  s2 == IF s1.fail = "none" THEN classify(s1, b, sink) ELSE s1
              IN IF s2.fail = "none"
                 THEN [s2 EXCEPT !.last = array_slide(@, b)]
                 ELSE s2

\* a variant in which a byte above 0x7F other than 195 leaves the flag as it is
iter_flag_sticky(byte, st, sink) ==
    IF byte > 127
    THEN [st EXCEPT !.utf8 = (st.utf8 \/ byte = GERMAN_SPECIAL_CHAR_FIRST_BYTE)]
    ELSE IF st.utf8 /\ german_second_byte(byte) = None
         THEN [st EXCEPT !.utf8 = FALSE]
         ELSE LET b == lowercase_b(IF st.utf8 THEN german_second_byte(byte) ELSE byte)
                  s0 == [st EXCEPT !.utf8 = FALSE]
                  s1 == IF s0.prev_uncertain
                        THEN resolve_uncertain([s0 EXCEPT !.prev_uncertain = FALSE], b, sink)
                        ELSE s0
                  s2 == IF s1.fail = "none" THEN classify(s1, b, sink) ELSE s1
              IN IF s2.fail = "none"
                 THEN [s2 EXCEPT !.last = array_slide(@, b)]
                 ELSE s2

\* a variant in which a byte above 0x7F gives up the pending letter
iter_nonascii_clears(byte, st, sink) ==
    IF byte > 127
    THEN [st EXCEPT !.utf8 = (byte = GERMAN_SPECIAL_CHAR_FIRST_BYTE),
                    !.prev_uncertain = FALSE]
    ELSE IF st.utf8 /\ german_second_byte(byte) = None
         THEN [st EXCEPT !.utf8 = FALSE]
         ELSE LET b == lowercase_b(IF st.utf8 THEN german_second_byte(byte) ELSE byte)
                  s0 == [st EXCEPT !.utf8 = FALSE]
                  s1 == IF s0.prev_uncertain
                        THEN resolve_uncertain([s0 EXCEPT !.prev_uncertain = FALSE], b, sink)
                        ELSE s0
                  s2 == IF s1.fail = "none" THEN classify(s1, b, sink) ELSE s1
              IN IF s2.fail = "none"
                 THEN [s2 EXCEPT !.last = array_slide(@, b)]
                 ELSE s2

\* one expansion of iter! on the byte
iter(byte, st, sink) ==
    IF byte > 127
    THEN [st EXCEPT !.utf8 = (byte = GERMAN_SPECIAL_CHAR_FIRST_BYTE)]
    ELSE IF st.utf8 /\ german_second_byte(byte) = None
         THEN [st EXCEPT !.utf8 = FALSE]
         ELSE LET b == lowercase_b(IF st.utf8 THEN german_second_byte(byte) ELSE byte)
                  s0 == [st EXCEPT !.utf8 = FALSE]
                  s1 == IF s0.prev_uncertain
                        THEN resolve_uncertain([s0 EXCEPT !.prev_uncertain = FALSE], b, sink)
                        ELSE s0
                  s2 == IF s1.fail = "none" THEN classify(s1, b, sink) ELSE s1
              IN IF s2.fail = "none"
                 THEN [s2 EXCEPT !.last = array_slide(@, b)]
                 ELSE s2

\* the locals of an encode call in front of its loop, with its sink
locals(sink) ==
    [utf8 |-> FALSE, last |-> << 26, 26 >>, prev_uncertain |-> FALSE,
     out |-> sink, fail |-> "none", emitted |-> << >>]

(***************************************************************************)
(* Whole calls on one input, as functions of the bytes                     *)
(***************************************************************************)
RECURSIVE vec_loop(_, _, _)
\* the for loop of utf8_to_cologne_codes_vec from byte k on
vec_loop(st, bs, k) ==
    IF k > Len(bs) \/ st.fail # "none"
    THEN st
    ELSE vec_loop(iter(bs[k], st, "vec"), bs, k + 1)

\* the Vec after utf8_to_cologne_codes_vec(bs, outbuf)
utf8_to_cologne_codes_vec(bs, outbuf) ==
    LET st == vec_loop(locals(outbuf), bs, 1) IN
    IF st.fail # "none"
    THEN st.out
    ELSE pop(cologne_code_push(st.out, Space).out)

RECURSIVE packed_loop(_, _, _)
\* the for loop of CologneVec::read_from_utf8 from byte k on
packed_loop(st, bs, k) ==
    IF k > Len(bs) \/ st.fail # "none"
    THEN st
    ELSE packed_loop(iter(bs[k], st, "packed"), bs, k + 1)

\* the CologneVec after self.read_from_utf8(bs)
read_from_utf8(self, bs) ==
    LET st == packed_loop(locals(self), bs, 1) IN
    IF st.fail # "none" THEN st.out ELSE finish(st.out)

RECURSIVE string_loop(_, _, _)
\* the for loop of utf8_to_cologne_codes_string from byte k on
string_loop(st, bs, k) ==
    IF k > Len(bs) \/ st.fail # "none"
    THEN st
    ELSE string_loop(iter(bs[k], st, "string"), bs, k + 1)

\* the characters of the String after utf8_to_cologne_codes_string(bs, outbuf)
utf8_to_cologne_codes_string(bs, outbuf) ==
    LET st == string_loop(locals([last |-> << None, None >>, inner |-> outbuf]), bs, 1) IN
    IF st.fail # "none"
    THEN st.out.inner
    ELSE utf8_to_cologne_codes_string_tail(st.out)

(***************************************************************************)
(* Inputs                                                                  *)
(***************************************************************************)
\* a c h p s t x Z, space and '@', the german lead byte and the second byte of sz
BytesWide == {97, 99, 104, 112, 115, 116, 120, 90, 32, 64, 195, 159}
\* a c x and space
BytesDeep == {97, 99, 120, 32}

SeqsUpTo(S, n) == UNION {[1..k -> S] : k \in 0..n}

\* "Müller-Lüdenscheidt"
Mueller ==
    << 77, 195, 188, 108, 108, 101, 114, 45,
       76, 195, 188, 100, 101, 110, 115, 99, 104, 101, 105, 100, 116 >>
\* "Wikipedia"
Wikipedia == << 87, 105, 107, 105, 112, 101, 100, 105, 97 >>
\* "Hacico"
Hacico == << 72, 97, 99, 105, 99, 111 >>

Fixtures == {Mueller, Wikipedia, Hacico}

\* every letter of either case between breaks: "l ", "@l ", and "l L@" for a
\* small letter l and a capital L
IsolatedInputs ==
    {<< l, 32 >> : l \in (65..90) \cup (97..122)}
    \cup {<< 64, l, 32 >> : l \in (65..90) \cup (97..122)}
    \cup {<< l, 32, u, 64 >> : l \in 97..122, u \in 65..90}

\* d, t, p and D behind a break, an s or an a, in front of every small letter
\* and of a break
PendingInputs ==
    {<< a, u, b >> : a \in {32, 115, 97}, u \in {100, 116, 112, 68}, b \in (97..122) \cup {32}}

\* c behind every small letter and a break, in front of every small letter and
\* a break
PendingCInputs ==
    {<< a, 99, b >> : a \in (97..122) \cup {32}, b \in (97..122) \cup {32}}

\* x behind every letter of either case and a break
XInputs == {<< l, 120, 32 >> : l \in (97..122) \cup (65..90) \cup {32}}

\* every small letter behind a leading space
LeadingBreakInputs == {<< 32, l >> : l \in 97..122}

Inputs ==
    SeqsUpTo(BytesWide, MaxLenWide) \cup SeqsUpTo(BytesDeep, MaxLenDeep)
    \cup Fixtures \cup IsolatedInputs \cup PendingInputs \cup PendingCInputs \cup XInputs
    \cup LeadingBreakInputs

(***************************************************************************)
(* The driver                                                              *)
(***************************************************************************)
VARIABLES
    bytes,           \* the input of every call
    pc,              \* the driver's position
    i,               \* index of the next byte of the running loop
    utf8,            \* local of the running call
    last,            \* local of the running call: the lookback window
    prev_uncertain,  \* local of the running call
    emitted,         \* log of the pushes of the running call
    outbuf,          \* the Vec<CologneCode> of utf8_to_cologne_codes_vec
    cv,              \* the CologneVec of read_from_utf8
    cs,              \* the CologneString around the String of utf8_to_cologne_codes_string
    decoded,         \* what internal_iter visits on cv
    rebuilt,         \* what internal_iter visits on from_codes(outbuf)
    call,            \* the last operation called on the sinks, with the sinks in front of it
    pushed,          \* the classes pushed to all three sinks since they were empty
    synced           \* no operation but push has changed the CologneVec since it was empty

vars ==
    << bytes, pc, i, utf8, last, prev_uncertain, emitted, outbuf, cv, cs, decoded, rebuilt,
       call, pushed, synced >>

Init ==
    /\ bytes \in Inputs
    /\ pc = "vec_call"
    /\ i = 1
    /\ utf8 = FALSE
    /\ last = << 26, 26 >>
    /\ prev_uncertain = FALSE
    /\ emitted = << >>
    /\ outbuf = << >>
    /\ cv = new
    /\ cs = [last |-> << None, None >>, inner |-> << >>]
    /\ decoded = << >>
    /\ rebuilt = << >>
    /\ call = [op |-> "none"]
    /\ pushed = << >>
    /\ synced = TRUE

\* the running call's locals around the sink
State(sink) ==
    [utf8 |-> utf8, last |-> last, prev_uncertain |-> prev_uncertain,
     out |-> sink, fail |-> "none", emitted |-> emitted]

\* the let statements in front of the loop of an encode call
Call(from, to) ==
    /\ pc = from
    /\ pc' = to
    /\ i' = 1
    /\ utf8' = FALSE
    /\ last' = << 26, 26 >>
    /\ prev_uncertain' = FALSE
    /\ emitted' = << >>

\* the effect of one loop iteration on the locals
Step(s) ==
    /\ utf8' = s.utf8
    /\ last' = s.last
    /\ prev_uncertain' = s.prev_uncertain
    /\ emitted' = s.emitted
    /\ i' = i + 1
    /\ pc' = IF s.fail = "none" THEN pc ELSE s.fail

VecCall ==
    /\ Call("vec_call", "vec_loop")
    /\ UNCHANGED << call, pushed, synced, bytes, outbuf, cv, cs, decoded, rebuilt >>

VecIter ==
    /\ pc = "vec_loop"
    /\ i <= Len(bytes)
    /\ LET s == iter(bytes[i], State(outbuf), "vec") IN
         /\ Step(s)
         /\ outbuf' = s.out
    /\ UNCHANGED << call, pushed, synced, bytes, cv, cs, decoded, rebuilt >>

VecReturn ==
    /\ pc = "vec_loop"
    /\ i > Len(bytes)
    /\ LET r == cologne_code_push(outbuf, Space) IN
         /\ outbuf' = pop(r.out)
         /\ pc' = IF r.fail = "none" THEN "packed_call" ELSE r.fail
    /\ UNCHANGED << call, pushed, synced, bytes, i, utf8, last, prev_uncertain, emitted, cv, cs, decoded, rebuilt >>

PackedCall ==
    /\ Call("packed_call", "packed_loop")
    /\ UNCHANGED << call, pushed, synced, bytes, outbuf, cv, cs, decoded, rebuilt >>

PackedIter ==
    /\ pc = "packed_loop"
    /\ i <= Len(bytes)
    /\ LET s == iter(bytes[i], State(cv), "packed") IN
         /\ Step(s)
         /\ cv' = s.out
    /\ UNCHANGED << call, pushed, synced, bytes, outbuf, cs, decoded, rebuilt >>

PackedReturn ==
    /\ pc = "packed_loop"
    /\ i > Len(bytes)
    /\ cv' = finish(cv)
    /\ pc' = "string_call"
    /\ UNCHANGED << call, pushed, synced, bytes, i, utf8, last, prev_uncertain, emitted, outbuf, cs, decoded, rebuilt >>

StringCall ==
    /\ Call("string_call", "string_loop")
    /\ cs' = [last |-> << None, None >>, inner |-> cs.inner]
    /\ UNCHANGED << call, pushed, synced, bytes, outbuf, cv, decoded, rebuilt >>

StringIter ==
    /\ pc = "string_loop"
    /\ i <= Len(bytes)
    /\ LET s == iter(bytes[i], State(cs), "string") IN
         /\ Step(s)
         /\ cs' = s.out
    /\ UNCHANGED << call, pushed, synced, bytes, outbuf, cv, decoded, rebuilt >>

StringReturn ==
    /\ pc = "string_loop"
    /\ i > Len(bytes)
    /\ cs' = [cs EXCEPT !.inner = utf8_to_cologne_codes_string_tail(cs)]
    /\ pc' = "decode"
    /\ UNCHANGED << call, pushed, synced, bytes, i, utf8, last, prev_uncertain, emitted, outbuf, cv, decoded, rebuilt >>

\* cv.internal_iter with a visitor that collects
Decode ==
    /\ pc = "decode"
    /\ decoded' = internal_iter(cv)
    /\ pc' = "rebuild"
    /\ UNCHANGED << call, pushed, synced, bytes, i, utf8, last, prev_uncertain, emitted, outbuf, cv, cs, rebuilt >>

\* CologneVec::from_codes(&outbuf).internal_iter with a visitor that collects
Rebuild ==
    /\ pc = "rebuild"
    /\ rebuilt' = internal_iter(from_codes(outbuf))
    /\ pc' = "done"
    /\ UNCHANGED << call, pushed, synced, bytes, i, utf8, last, prev_uncertain, emitted, outbuf, cv, cs, decoded >>

Next ==
    \/ VecCall \/ VecIter \/ VecReturn
    \/ PackedCall \/ PackedIter \/ PackedReturn
    \/ StringCall \/ StringIter \/ StringReturn
    \/ Decode \/ Rebuild

Spec == Init /\ [][Next]_vars

\* the driver's positions
TypeOK ==
    /\ pc \in {"vec_call", "vec_loop", "packed_call", "packed_loop",
               "string_call", "string_loop", "decode", "rebuild", "done", "panic", "ub",
               "api", "reuse_first", "reuse_clear", "reuse_second", "reuse_done"}
    /\ i \in 1..(Len(bytes) + 1)
    /\ utf8 \in BOOLEAN
    /\ prev_uncertain \in BOOLEAN

\* the step-wise calls compute what the whole-call functions compute
StepwiseAgrees ==
    pc = "done" =>
        /\ outbuf = utf8_to_cologne_codes_vec(bytes, << >>)
        /\ cv = read_from_utf8(new, bytes)
        /\ cs.inner = utf8_to_cologne_codes_string(bytes, << >>)

(***************************************************************************)
(* The sinks under their operations, called in any order.  The list and    *)
(* the string take every push the CologneVec takes for as long as push is  *)
(* the only operation that changed it, and start over when it does.        *)
(***************************************************************************)
\* most pushes into the three sinks in step, and most classes held by a
\* CologneVec in front of a push
MaxVecLen == 4

\* most classes held by a CologneVec in front of a read_from_utf8
MaxReadLen == 1

\* the classes pushed and handed to from_codes
ApiCodes == {Class0, Class1, Class8, Space}

\* every small letter, and "c ", " a", "ph", "a" 0xC3 0x9F
ApiTexts ==
    {<< l >> : l \in 97..122}
    \cup {<< 99, 32 >>, << 32, 97 >>, << 112, 104 >>, << 97, 195, 159 >>}

\* storage handed to from_inner
ApiStorage == {<< >>, << 16 >>, << 255, 224 >>}

EmptyString == [last |-> << None, None >>, inner |-> << >>]

InitApi ==
    /\ bytes = << >>
    /\ pc = "api"
    /\ i = 1
    /\ utf8 = FALSE
    /\ last = << 26, 26 >>
    /\ prev_uncertain = FALSE
    /\ emitted = << >>
    /\ outbuf = << >>
    /\ cv = new
    /\ cs = EmptyString
    /\ decoded = << >>
    /\ rebuilt = << >>
    /\ call = [op |-> "none"]
    /\ pushed = << >>
    /\ synced = TRUE

\* the sinks in front of a call
Before == [cv |-> cv, outbuf |-> outbuf, cs |-> cs]

\* a call that returns a fresh CologneVec; the list and the string start over
Fresh(op, arg, self) ==
    /\ cv' = self
    /\ outbuf' = << >>
    /\ cs' = EmptyString
    /\ pushed' = << >>
    /\ synced' = TRUE
    /\ call' = [op |-> op, arg |-> arg]
    /\ bytes' = << >>
    /\ emitted' = << >>
    /\ decoded' = << >>
    /\ UNCHANGED << pc, i, utf8, last, prev_uncertain, rebuilt >>

ApiNew ==
    /\ pc = "api"
    /\ Fresh("new", << >>, new)

ApiWithCapacity ==
    \E cap \in {0, 8} :
        /\ pc = "api"
        /\ Fresh("with_capacity", << cap >>, with_capacity(cap))

ApiFromInner ==
    \E inner \in ApiStorage :
        /\ pc = "api"
        /\ Fresh("from_inner", inner, from_inner(inner))

ApiClear ==
    /\ pc = "api"
    /\ Fresh("clear", << >>, clear(cv))

\* a constructor, called where the CologneVec at hand holds nothing
ApiFromCodes ==
    \E codes \in SeqsUpTo(ApiCodes, MaxVecLen) :
        /\ pc = "api"
        /\ cv.len = 0
        /\ cv' = from_codes(codes)
        /\ outbuf' = << >>
        /\ cs' = EmptyString
        /\ pushed' = << >>
        /\ synced' = FALSE
        /\ call' = [op |-> "from_codes", arg |-> codes]
        /\ bytes' = << >>
        /\ emitted' = << >>
        /\ decoded' = << >>
        /\ UNCHANGED << pc, i, utf8, last, prev_uncertain, rebuilt >>

\* one class pushed to the CologneVec and, in step, to the list and the string
ApiPush ==
    \E code \in ApiCodes :
        /\ pc = "api"
        /\ IF synced THEN Len(pushed) < MaxVecLen ELSE cv.len < MaxVecLen
        /\ LET p == push(cv, code)
               v == IF synced THEN cologne_code_push(outbuf, code)
                    ELSE [out |-> outbuf, fail |-> "none"]
               c == IF synced THEN cologne_code_push_char(cs, code)
                    ELSE [out |-> cs, fail |-> "none"]
           IN
           /\ cv' = p.out
           /\ outbuf' = v.out
           /\ cs' = c.out
           /\ pc' = IF p.fail # "none" THEN p.fail
                    ELSE IF v.fail # "none" THEN v.fail
                    ELSE IF c.fail # "none" THEN c.fail ELSE pc
        /\ pushed' = IF synced THEN Append(pushed, code) ELSE pushed
        /\ call' = [op |-> "push", arg |-> << code >>, before |-> Before]
        /\ bytes' = << >>
        /\ emitted' = << >>
        /\ decoded' = << >>
        /\ UNCHANGED << i, utf8, last, prev_uncertain, rebuilt, synced >>

ApiFinish ==
    /\ pc = "api"
    /\ cv' = finish(cv)
    /\ synced' = (synced /\ cv' = cv)
    /\ outbuf' = IF synced' THEN outbuf ELSE << >>
    /\ cs' = IF synced' THEN cs ELSE EmptyString
    /\ pushed' = IF synced' THEN pushed ELSE << >>
    /\ call' = [op |-> "finish", arg |-> << >>, before |-> Before]
    /\ bytes' = << >>
    /\ emitted' = << >>
    /\ decoded' = << >>
    /\ UNCHANGED << pc, i, utf8, last, prev_uncertain, rebuilt >>

ApiReadFromUtf8 ==
    \E bs \in ApiTexts :
        /\ pc = "api"
        /\ cv.len <= MaxReadLen
        /\ LET st == packed_loop(locals(cv), bs, 1) IN
             /\ cv' = read_from_utf8(cv, bs)
             /\ emitted' = st.emitted
             /\ pc' = IF st.fail = "none" THEN pc ELSE st.fail
        /\ outbuf' = << >>
        /\ cs' = EmptyString
        /\ pushed' = << >>
        /\ synced' = FALSE
        /\ call' = [op |-> "read_from_utf8", arg |-> bs, before |-> Before]
        /\ bytes' = bs
        /\ decoded' = << >>
        /\ UNCHANGED << i, utf8, last, prev_uncertain, rebuilt >>

\* cv.internal_iter with a visitor that collects and breaks at its k-th call
ApiInternalIter ==
    \E k \in 0..(MaxVecLen + 2) :
        /\ pc = "api"
        /\ decoded' = internal_iter_break(cv, k)
        /\ call' = [op |-> "internal_iter", arg |-> << k >>, before |-> Before]
        /\ bytes' = << >>
        /\ emitted' = << >>
        /\ UNCHANGED << pc, i, utf8, last, prev_uncertain, outbuf, cv, cs, rebuilt, pushed, synced >>

NextApi ==
    \/ ApiNew \/ ApiWithCapacity \/ ApiFromInner \/ ApiClear
    \/ ApiFromCodes \/ ApiPush \/ ApiFinish \/ ApiReadFromUtf8 \/ ApiInternalIter

SpecApi == InitApi /\ [][NextApi]_vars

(***************************************************************************)
(* One CologneVec used for two inputs: read_from_utf8, clear,              *)
(* read_from_utf8                                                          *)
(***************************************************************************)
\* longest input of either call
MaxReuseLen == 2

\* a c t x, space and the german lead byte
ReuseBytes == {97, 99, 116, 120, 32, 195}

InitReuse ==
    /\ bytes = << >>
    /\ pc = "reuse_first"
    /\ i = 1
    /\ utf8 = FALSE
    /\ last = << 26, 26 >>
    /\ prev_uncertain = FALSE
    /\ emitted = << >>
    /\ outbuf = << >>
    /\ cv = new
    /\ cs = EmptyString
    /\ decoded = << >>
    /\ rebuilt = << >>
    /\ call = [op |-> "none"]
    /\ pushed = << >>
    /\ synced = TRUE

\* outbuf.read_from_utf8(bs): the first call on the new CologneVec, the second
\* on the cleared one
ReuseRead ==
    \E bs \in SeqsUpTo(ReuseBytes, MaxReuseLen) :
        /\ pc \in {"reuse_first", "reuse_second"}
        /\ LET st == packed_loop(locals(cv), bs, 1) IN
             /\ cv' = read_from_utf8(cv, bs)
             /\ emitted' = st.emitted
             /\ pc' = IF st.fail # "none" THEN st.fail
                      ELSE IF pc = "reuse_first" THEN "reuse_clear" ELSE "reuse_done"
        /\ call' = IF pc = "reuse_first"
                   THEN [op |-> "read_from_utf8", arg |-> bs]
                   ELSE [op |-> "read_from_utf8", arg |-> bs, first |-> call.first,
                         held |-> call.held]
        /\ bytes' = bs
        /\ UNCHANGED << i, utf8, last, prev_uncertain, outbuf, cs, decoded, rebuilt,
                        pushed, synced >>

\* outbuf.clear()
ReuseClear ==
    /\ pc = "reuse_clear"
    /\ cv' = clear(cv)
    /\ pc' = "reuse_second"
    /\ call' = [op |-> "clear", arg |-> << >>, first |-> call.arg, held |-> cv]
    /\ UNCHANGED << bytes, i, utf8, last, prev_uncertain, emitted, outbuf, cs, decoded,
                    rebuilt, pushed, synced >>

NextReuse ==
    \/ ReuseRead
    \/ ReuseClear

SpecReuse == InitReuse /\ [][NextReuse]_vars

(***************************************************************************)
(* Properties                                                              *)
(***************************************************************************)
IsAsciiLetter(b) == b \in 65..90 \/ b \in 97..122

\* alphabet index of an ASCII letter of either case, 26 for any other byte
Letter(b) == IF b \in 65..90 THEN b - 65 ELSE IF b \in 97..122 THEN b - 97 ELSE 26

\* the printable rendering of a class sequence
Rendering(codes) == [k \in 1..Len(codes) |-> as_char(codes[k])]

NoRepeat(seq) == \A k \in 1..(Len(seq) - 1) : seq[k] # seq[k + 1]

\* the three results of encoding bs from empty sinks
Encoded(bs) ==
    [vec |-> utf8_to_cologne_codes_vec(bs, << >>),
     packed |-> read_from_utf8(new, bs),
     string |-> utf8_to_cologne_codes_string(bs, << >>)]

\* the three results the driver has computed
Results == [vec |-> outbuf, packed |-> cv, string |-> cs.inner]

\* C1: for every input, the classes internal_iter decodes from the CologneVec
\* filled by read_from_utf8 equal the Vec filled by utf8_to_cologne_codes_vec.
C1_PackedEqualsList == pc = "done" => decoded = outbuf

\* C2: for every input, the String of utf8_to_cologne_codes_string is the
\* character rendering of the Vec of utf8_to_cologne_codes_vec, element by
\* element and of the same length.
C2_StringRendersList == pc = "done" => cs.inner = Rendering(outbuf)

C2_Witness ==
    /\ pc = "done"
    /\ Len(cs.inner) >= 4
    /\ \E k \in 1..(Len(cs.inner) - 2) : cs.inner[k] = " " /\ cs.inner[k + 1] = "0"

\* C3: for every input and every sink, the final output contains no two
\* adjacent equal classes.
C3_NoAdjacentEqual ==
    pc = "done" => NoRepeat(outbuf) /\ NoRepeat(decoded) /\ NoRepeat(cs.inner)

\* C4: for every input, no call of any sink reaches an abort point (the
\* unreachable! arms, the unreachable_unchecked fallback, an unchecked read
\* outside the buffer), and the empty input produces empty outputs.
C4_NeverAborts ==
    /\ pc \notin {"panic", "ub"}
    /\ (pc = "done" /\ bytes = << >>) =>
           outbuf = << >> /\ cv = [len |-> 0, inner |-> << >>] /\ cs.inner = << >>

C4_Witness ==
    /\ pc = "done"
    /\ \E k \in 1..Len(bytes) : bytes[k] > 127
    /\ \E k \in 1..Len(emitted) : emitted[k][1] \in {IdxC, IdxD, IdxP, IdxT}

\* the letter a german second byte stands for, 0 for any other byte
Transliteration(b) ==
    CASE b = 164 -> 65 [] b = 182 -> 79 [] b = 188 -> 85 [] b = 159 -> 90 [] OTHER -> 0

\* C5: the byte pairs (195,164), (195,182), (195,188), (195,159) encode as the
\* letters A, O, U, Z: replacing such a pair in the input by its letter leaves
\* the output of every sink unchanged.
C5_GermanTransliterated ==
    pc = "done" =>
        \A k \in 1..(Len(bytes) - 1) :
            (bytes[k] = 195 /\ Transliteration(bytes[k + 1]) # 0) =>
                Results = Encoded(SubSeq(bytes, 1, k - 1)
                                  \o << Transliteration(bytes[k + 1]) >>
                                  \o SubSeq(bytes, k + 2, Len(bytes)))

SwapCase(b) == IF b \in 65..90 THEN b + 32 ELSE IF b \in 97..122 THEN b - 32 ELSE b

\* the sets of positions whose case is swapped: every set for a short input;
\* single positions, all capitals, all small letters and all for a long one
CaseMasks ==
    LET n == Len(bytes) IN
    IF n <= MaxLenDeep
    THEN SUBSET (1..n)
    ELSE {{k} : k \in 1..n}
         \cup {{k \in 1..n : bytes[k] \in 65..90}, {k \in 1..n : bytes[k] \in 97..122}, 1..n}

\* C6: for every input, replacing ASCII letters by their other-case form
\* leaves the output of each sink unchanged.
C6_CaseInsensitive ==
    pc = "done" =>
        \A mask \in CaseMasks :
            Results = Encoded([k \in 1..Len(bytes) |->
                                  IF k \in mask THEN SwapCase(bytes[k]) ELSE bytes[k]])

C6_Witness ==
    /\ pc = "done"
    /\ \E j, k \in 1..Len(bytes) : bytes[j] \in 65..90 /\ bytes[k] \in 97..122
    /\ Len(outbuf) >= 2

\* the positions of the letters C, D, P, T in the input, in order
UncertainPositions ==
    SelectSeq([k \in 1..Len(bytes) |-> k],
              LAMBDA k : Letter(bytes[k]) \in {IdxC, IdxD, IdxP, IdxT})

\* the class an uncertain letter at position p has to be pushed with
ExpectedCodes(p) ==
    LET l == Letter(bytes[p])
        next == IF p < Len(bytes) THEN Letter(bytes[p + 1]) ELSE IdxSPACE
    IN
    IF l = IdxP THEN (IF next = IdxH THEN {Class3} ELSE {Class1})
    ELSE IF l \in {IdxD, IdxT}
         THEN (IF next \in {IdxC, IdxS, IdxZ} THEN {Class8} ELSE {Class2})
         ELSE {Class4, Class8}

\* C7: every occurrence of an uncertain letter is encoded, wherever it stands:
\* when a call returns, its pushes for the letters C, D, P, T are, in order,
\* one per occurrence in the input, with Class1 for a P not in front of H,
\* Class2 for a D or T not in front of C, S or Z, and Class4 or Class8 for a C.
C7_UncertainNeverLost ==
    pc \in {"packed_call", "string_call", "decode"} =>
        LET pushes == SelectSeq(emitted, LAMBDA e : e[1] \in {IdxC, IdxD, IdxP, IdxT})
            occ == UncertainPositions
        IN
        /\ Len(pushes) = Len(occ)
        /\ \A k \in 1..Len(occ) :
               /\ pushes[k][1] = Letter(bytes[occ[k]])
               /\ pushes[k][2] \in ExpectedCodes(occ[k])

\* C8: for every class sequence s that utf8_to_cologne_codes_vec produces,
\* decoding CologneVec::from_codes(s) with internal_iter yields exactly s.
C8_RoundTrip == pc = "done" => rebuilt = outbuf

\* C9: an input of ASCII non-letter bytes only, of any length, encodes to the
\* empty sequence in all three sinks.
C9_NonLettersEncodeEmpty ==
    (pc = "done" /\ \A k \in 1..Len(bytes) : bytes[k] <= 127 /\ ~IsAsciiLetter(bytes[k])) =>
        /\ outbuf = << >>
        /\ cv = [len |-> 0, inner |-> << >>]
        /\ decoded = << >>
        /\ cs.inner = << >>

C9_Witness ==
    /\ pc = "done"
    /\ Len(bytes) >= 2
    /\ \A k \in 1..Len(bytes) : bytes[k] <= 127 /\ ~IsAsciiLetter(bytes[k])
    /\ bytes[1] # bytes[2]
    /\ cv.len = 0

\* the classes of "Müller-Lüdenscheidt"
MuellerCodes == << Class6, Class5, Class7, Space, Class5, Class2, Class6, Class8, Class2 >>

\* C10: "Müller-Lüdenscheidt" encodes to [6, 5, 7, Space, 5, 2, 6, 8, 2] in the
\* packed sink and the list sink and to "657 52682" in the string sink.
C10_MuellerFixture ==
    (pc = "done" /\ bytes = Mueller) =>
        /\ outbuf = MuellerCodes
        /\ cv.len = 9
        /\ decoded = MuellerCodes
        /\ cs.inner = << "6", "5", "7", " ", "5", "2", "6", "8", "2" >>

C10_Witness == pc = "done" /\ bytes = Mueller /\ Len(decoded) = 9

\* the classes of a letter that stands alone between breaks, by alphabet index
IsolatedCodes(l) ==
    CASE l \in {0, 4, 8, 9, 14, 20, 24} -> << Class0 >>
      [] l \in {1, 15} -> << Class1 >>
      [] l \in {3, 19} -> << Class2 >>
      [] l \in {5, 21, 22} -> << Class3 >>
      [] l \in {6, 10, 16} -> << Class4 >>
      [] l = 11 -> << Class5 >>
      [] l \in {12, 13} -> << Class6 >>
      [] l = 17 -> << Class7 >>
      [] l \in {2, 18, 25} -> << Class8 >>
      [] l = 23 -> << Class4, Class8 >>
      [] l = 7 -> << >>

IsAsciiBreak(b) == b <= 127 /\ ~IsAsciiLetter(b)

\* the byte at position p is an ASCII non-letter that the resolver classifies:
\* it does not directly follow the lead byte 195
ClassifiedBreakAt(p) ==
    /\ IsAsciiBreak(bytes[p])
    /\ (p = 1 \/ bytes[p - 1] # GERMAN_SPECIAL_CHAR_FIRST_BYTE)

\* the loop has just consumed the break behind a letter at position p that
\* stands between breaks (or at the input start)
IsolatedLetterDone(p) ==
    /\ pc \in {"vec_loop", "packed_loop", "string_loop"}
    /\ p >= 1
    /\ i = p + 2
    /\ IsAsciiLetter(bytes[p])
    /\ IsAsciiBreak(bytes[p + 1])
    /\ (p = 1 \/ ClassifiedBreakAt(p - 1))

\* C11: a single letter of either case between breaks (or at the input start
\* and in front of a break) pushes exactly the classes of the isolated-letter
\* table: its pushes stand between the Space pushed for the break in front of
\* it and the Space pushed for the break behind it, and two such letters
\* around one break give their classes separated by exactly one Space.
C11_IsolatedLetterTable ==
    /\ \A p \in 1..(Len(bytes) - 1) :
           IsolatedLetterDone(p) =>
               LET l == Letter(bytes[p])
                   exp == IsolatedCodes(l)
                   k == Len(exp)
                   n == Len(emitted)
               IN
               /\ n >= k + 1
               /\ emitted[n] = << IdxSPACE, Space >>
               /\ \A j \in 1..k : emitted[n - k - 1 + j] = << l, exp[j] >>
               /\ IF p = 1
                  THEN n = k + 1
                  ELSE n >= k + 2 /\ emitted[n - k - 1] = << IdxSPACE, Space >>
    /\ (pc = "done" /\ Len(bytes) = 4
        /\ IsAsciiLetter(bytes[1]) /\ IsAsciiBreak(bytes[2])
        /\ IsAsciiLetter(bytes[3]) /\ IsAsciiBreak(bytes[4])
        /\ Letter(bytes[1]) # IdxH /\ Letter(bytes[3]) # IdxH) =>
           LET exp == IsolatedCodes(Letter(bytes[1])) \o << Space >>
                      \o IsolatedCodes(Letter(bytes[3]))
           IN
           /\ outbuf = exp
           /\ decoded = exp
           /\ cs.inner = Rendering(exp)

C11_Witness ==
    /\ IsolatedLetterDone(3)
    /\ pc = "string_loop"
    /\ bytes[3] = 88
    /\ Letter(bytes[1]) = IdxP
    /\ Len(emitted) = 5


\* the nibble at index k, counted from 0: the high half of byte k / 2 for an
\* even k, the low half for an odd k
NibbleAt(inner, k) ==
    IF k \div 2 + 1 > Len(inner)
    THEN Poison
    ELSE IF k % 2 = 0 THEN inner[k \div 2 + 1] \div 16 ELSE inner[k \div 2 + 1] % 16

\* the classes a CologneVec holds, by index
Elems(self) == [j \in 1..self.len |-> NibbleAt(self.inner, j - 1)]

Front(seq) == SubSeq(seq, 1, Len(seq) - 1)

\* finish is to drop the last element of the sequence
FinishDrops(seq) ==
    LET n == Len(seq) IN
    /\ n >= 1
    /\ seq[n] \in {Class0, Space}
    /\ ~(n >= 2 /\ seq[n - 1] = Space /\ seq[n] = Class0)

\* C12: CologneVec::finish removes exactly the last element when that element
\* is Class0 or Space and the last two elements are not [Space, Class0]; in
\* every other case, the empty container included, it changes nothing; no
\* element other than the removed one changes.
C12_FinishRule ==
    call.op = "finish" =>
        LET b == Elems(call.before.cv) IN
        IF FinishDrops(b)
        THEN cv.len = Len(b) - 1 /\ Elems(cv) = Front(b)
        ELSE cv = call.before.cv

\* finish has dropped a Space behind two classes, and has kept [Space, Class0]
C12_Witness ==
    /\ call.op = "finish"
    /\ call.before.cv.len = 3
    /\ Elems(call.before.cv)[3] = Space
    /\ Elems(cv) = << Class1, Class0 >>

C12_WitnessKept ==
    /\ call.op = "finish"
    /\ Elems(call.before.cv) = << Class8, Space, Class0 >>
    /\ cv = call.before.cv

\* the classes a CologneString holds, as characters: those written and those buffered
StringElems(self) ==
    self.inner
    \o (IF self.last[1] = None THEN << >> ELSE << as_char(self.last[1]) >>)
    \o (IF self.last[2] = None THEN << >> ELSE << as_char(self.last[2]) >>)

\* the last element of a sequence, None for an empty one
LastOf(seq) == IF Len(seq) = 0 THEN None ELSE seq[Len(seq)]

\* the last character of a sequence, "" for an empty one
LastChar(seq) == IF Len(seq) = 0 THEN "" ELSE seq[Len(seq)]

\* what a push of x, other than the last element, makes of the sequence b
\* under the rule of the stray zero
StrayZeroRule(b, x, zero, space) ==
    LET n == Len(b) IN
    IF n >= 2 /\ b[n] = zero /\ b[n - 1] # space
    THEN [b EXCEPT ![n] = x]
    ELSE Append(b, x)

\* the push recorded in call went to the list and the string as well
PushedInStep == call.op = "push" /\ pc = "api" /\ synced

\* C13: a push of a class other than the last element overwrites a last Class0
\* in place when the sink holds at least two elements and the element in front
\* of the Class0 is not Space, and appends the class in every other case (tail
\* [Space, Class0], fewer than two elements, last element not Class0); in the
\* CologneVec, the list and the string.
C13_StrayZeroSuppression ==
    (call.op = "push" /\ pc = "api") =>
        LET code == call.arg[1]
            b == call.before
        IN
        /\ LastOf(Elems(b.cv)) # code =>
               /\ Elems(cv) = StrayZeroRule(Elems(b.cv), code, Class0, Space)
               /\ cv.len = Len(StrayZeroRule(Elems(b.cv), code, Class0, Space))
        /\ (synced /\ LastOf(b.outbuf) # code) =>
               outbuf = StrayZeroRule(b.outbuf, code, Class0, Space)
        /\ (synced /\ LastChar(StringElems(b.cs)) # as_char(code)) =>
               StringElems(cs) =
                   StrayZeroRule(StringElems(b.cs), as_char(code),
                                 as_char(Class0), as_char(Space))

\* a push has overwritten the Class0 behind Class1 in all three sinks
C13_Witness ==
    /\ PushedInStep
    /\ call.arg = << Class8 >>
    /\ call.before.outbuf = << Class1, Class0 >>
    /\ Elems(call.before.cv) = << Class1, Class0 >>
    /\ StringElems(call.before.cs) = << "1", "0" >>
    /\ outbuf = << Class1, Class8 >>
    /\ Elems(cv) = << Class1, Class8 >>
    /\ StringElems(cs) = << "1", "8" >>

\* C14: a push of the class that is the last element leaves the sink as it
\* was: len and backing bytes of the CologneVec, the list, and the buffered
\* pair and written characters of the string.
C14_DedupIsNoOp ==
    (call.op = "push" /\ pc = "api") =>
        LET code == call.arg[1]
            b == call.before
        IN
        /\ LastOf(Elems(b.cv)) = code => cv = b.cv
        /\ (synced /\ LastOf(b.outbuf) = code) => outbuf = b.outbuf
        /\ (synced /\ LastChar(StringElems(b.cs)) = as_char(code)) => cs = b.cs

\* Class8 was pushed behind [Space, Class8] into all three sinks
C14_Witness ==
    /\ PushedInStep
    /\ call.arg = << Class8 >>
    /\ call.before.outbuf = << Space, Class8 >>
    /\ cv = call.before.cv
    /\ cv.len = 2
    /\ cs.last = << Space, Class8 >>

\* C15: in every state reached by new, with_capacity, from_inner, from_codes,
\* push, finish, clear and read_from_utf8, the CologneVec holds ceil(len / 2)
\* bytes, and the low half of the last byte is zero when len is odd.
C15_PackedRepresentation ==
    pc = "api" =>
        /\ Len(cv.inner) = (cv.len + 1) \div 2
        /\ cv.len % 2 = 1 => cv.inner[Len(cv.inner)] % 16 = 0

\* finish has dropped the Space in the low half of the last byte
C15_Witness ==
    /\ pc = "api"
    /\ call.op = "finish"
    /\ call.before.cv = [len |-> 2, inner |-> << 8 * 16 + Space >>]
    /\ cv = [len |-> 1, inner |-> << 8 * 16 >>]

\* C16: every class the resolver pushes, and every one of the first len
\* nibbles of a CologneVec, is a tag in 0..8 or 14; the codes 9..13 of the
\* table are neither pushed nor stored, so last and internal_iter hand
\* nibble_to_cologne valid tags only.
C16_TagValidity ==
    pc = "api" =>
        /\ \A k \in 1..Len(emitted) : emitted[k][2] \in CologneCode
        /\ \A j \in 1..cv.len : Elems(cv)[j] \in CologneCode
        /\ vec_last(cv) # Poison
        /\ \A k \in 0..(cv.len + 1) :
               \A j \in 1..Len(internal_iter_break(cv, k)) :
                   internal_iter_break(cv, k)[j] # Poison

\* read_from_utf8 has pushed the classes of x behind a stored Class1
C16_Witness ==
    /\ pc = "api"
    /\ call.op = "read_from_utf8"
    /\ bytes = << 120 >>
    /\ emitted = << << IdxX, Class4 >>, << IdxX, Class8 >> >>
    /\ Elems(call.before.cv) = << Class1 >>
    /\ Elems(cv) = << Class1, Class4, Class8 >>

\* the sequence a sink holds after the pushes ps, by the rules of the dedup and
\* of the stray zero
RECURSIVE Logical(_)
Logical(ps) ==
    IF Len(ps) = 0
    THEN << >>
    ELSE LET b == Logical(Front(ps))
             x == ps[Len(ps)]
         IN IF LastOf(b) = x THEN b ELSE StrayZeroRule(b, x, Class0, Space)

\* the sequence a CologneVec built by from_codes holds
Finished(codes) == IF FinishDrops(codes) THEN Front(codes) ELSE codes

\* the bytes of self hold the classes of seq: the class of index k in the high
\* half of byte k / 2 for an even k and in its low half for an odd k
Layout(seq, self) ==
    /\ self.len = Len(seq)
    /\ \A k \in 0..(Len(seq) - 1) :
           /\ k \div 2 + 1 <= Len(self.inner)
           /\ IF k % 2 = 0
              THEN self.inner[k \div 2 + 1] \div 16 = seq[k + 1]
              ELSE self.inner[k \div 2 + 1] % 16 = seq[k + 1]

\* C17: for every index i < len the i-th class of the CologneVec is in the
\* high nibble of byte i / 2 when i is even and in its low nibble when i is
\* odd: after pushes from empty, and after from_codes.
C17_NibbleLayout ==
    pc = "api" =>
        /\ synced => Layout(Logical(pushed), cv)
        /\ call.op = "from_codes" => Layout(Finished(call.arg), cv)

\* a push has overwritten a Class0 in the high nibble of the second byte
C17_Witness ==
    /\ pc = "api"
    /\ synced
    /\ pushed = << Class8, Class1, Class0, Class8 >>
    /\ cv = [len |-> 3, inner |-> << 8 * 16 + 1, 8 * 16 >>]

\* C18: internal_iter calls the visitor on the len stored classes in index
\* order, each once; when the visitor breaks at the k-th class nothing behind
\* it is visited; the CologneVec stays as it was.
C18_Traversal ==
    (pc = "api" /\ call.op = "internal_iter") =>
        LET k == call.arg[1]
            e == Elems(cv)
        IN
        /\ decoded = IF k = 0 \/ k > Len(e) THEN e ELSE SubSeq(e, 1, k)
        /\ cv = call.before.cv
        /\ internal_iter_break(cv, k) = decoded

\* the visitor broke at the third of four classes
C18_Witness ==
    /\ pc = "api"
    /\ call.op = "internal_iter"
    /\ call.arg = << 3 >>
    /\ cv.len = 4
    /\ decoded = << Class1, Space, Class8 >>

\* a visitor that never breaks has seen the three classes of an odd len
C18_WitnessWhole ==
    /\ pc = "api"
    /\ call.op = "internal_iter"
    /\ call.arg = << 0 >>
    /\ cv.len = 3
    /\ decoded = << Class8, Space, Class0 >>

\* the byte at k belongs to one of the four german two-byte sequences
InGermanSequence(bs, k) ==
    \/ /\ bs[k] = GERMAN_SPECIAL_CHAR_FIRST_BYTE
       /\ k < Len(bs)
       /\ Transliteration(bs[k + 1]) # 0
    \/ /\ Transliteration(bs[k]) # 0
       /\ k > 1
       /\ bs[k - 1] = GERMAN_SPECIAL_CHAR_FIRST_BYTE

Without(bs, k) == SubSeq(bs, 1, k - 1) \o SubSeq(bs, k + 1, Len(bs))

\* C19, as stated: a byte above 0x7F outside the four german sequences is a
\* word break: the input encodes as the input with a space in its place.
C19_NonAsciiIsBreak ==
    pc = "done" =>
        \A k \in 1..Len(bytes) :
            (bytes[k] > 127 /\ ~InGermanSequence(bytes, k)) =>
                Results = Encoded([bytes EXCEPT ![k] = 32])

\* C19, amended: a byte above 0x7F other than the lead byte 195, and not
\* directly behind a 195, is skipped and is no word break: the input encodes
\* as the input without the byte.
C19_NonAsciiIsSkipped ==
    pc = "done" =>
        \A k \in 1..Len(bytes) :
            (/\ bytes[k] > 127
             /\ bytes[k] # GERMAN_SPECIAL_CHAR_FIRST_BYTE
             /\ (k = 1 \/ bytes[k - 1] # GERMAN_SPECIAL_CHAR_FIRST_BYTE)) =>
                Results = Encoded(Without(bytes, k))

\* "c", 0x9F, "a" has encoded as "ca": the pending C met the A across the byte
C19_Witness ==
    /\ pc = "done"
    /\ bytes = << 99, 159, 97 >>
    /\ outbuf = << Class4 >>
    /\ decoded = << Class4 >>
    /\ cs.inner = << "4" >>

\* the class of a pending P, D or T in front of the letter or break b
PendingClass(l1, b) ==
    IF l1 = IdxP
    THEN IF b = IdxH THEN Class3 ELSE Class1
    ELSE IF b \in {IdxC, IdxS, IdxZ} THEN Class8 ELSE Class2

\* the step classifies the byte at i while P, D or T is pending
ResolvesPending ==
    /\ pc \in {"vec_loop", "packed_loop", "string_loop"}
    /\ i <= Len(bytes)
    /\ i' = i + 1
    /\ prev_uncertain
    /\ last[2] \in {IdxP, IdxD, IdxT}
    /\ bytes[i] <= 127
    /\ ~utf8

\* C20: a byte classified while P is pending makes the resolver push Class3
\* for the letter H and Class1 for any other letter or break; while D or T is
\* pending, Class8 for C, S or Z and Class2 otherwise; whatever the letter in
\* front of the pending one; the pending flag is cleared, and set again only
\* by a current letter that is itself C, D, P or T.
C20_PendingResolution ==
    [][ResolvesPending =>
           LET b == Letter(bytes[i]) IN
           /\ pc' = pc
           /\ Len(emitted') > Len(emitted)
           /\ emitted'[Len(emitted) + 1] = << last[2], PendingClass(last[2], b) >>
           /\ prev_uncertain' = (b \in {IdxC, IdxD, IdxP, IdxT})]_vars

\* "sph" in the list sink: the pending P has become Class3 at the H
C20_Witness ==
    /\ pc = "vec_loop"
    /\ i = 4
    /\ bytes = << 115, 112, 104 >>
    /\ emitted = << << IdxS, Class8 >>, << IdxP, Class3 >> >>
    /\ ~prev_uncertain

\* the class of a pending C behind the letter or break l0, in front of the
\* letter or break b
PendingCClass(l0, b) ==
    IF \/ l0 = IdxSPACE /\ b \in {IdxA, IdxH, IdxK, IdxL, IdxO, IdxQ, IdxR, IdxU, IdxX}
       \/ l0 \notin {IdxSPACE, IdxS, IdxZ} /\ b \in {IdxA, IdxH, IdxK, IdxO, IdxQ, IdxU, IdxX}
    THEN Class4
    ELSE Class8

\* the step classifies the byte at i while C is pending
ResolvesPendingC ==
    /\ pc \in {"vec_loop", "packed_loop", "string_loop"}
    /\ i <= Len(bytes)
    /\ i' = i + 1
    /\ prev_uncertain
    /\ last[2] = IdxC
    /\ bytes[i] <= 127
    /\ ~utf8

\* C21: for every letter or break in front of a pending C and every current
\* letter or break, the resolver pushes Class4 iff the one in front is a break
\* and the current one is in {A,H,K,L,O,Q,R,U,X}, or the one in front is no
\* break, no S and no Z and the current one is in {A,H,K,O,Q,U,X}; Class8 in
\* every other case.
C21_PendingCResolution ==
    [][ResolvesPendingC =>
           /\ pc' = pc
           /\ Len(emitted') > Len(emitted)
           /\ emitted'[Len(emitted) + 1]
                  = << IdxC, PendingCClass(last[1], Letter(bytes[i])) >>]_vars

\* " cl" in the list sink: the C at the start of the word is Class4 at the L
C21_Witness ==
    /\ pc = "vec_loop"
    /\ i = 4
    /\ bytes = << 32, 99, 108 >>
    /\ emitted = << << IdxSPACE, Space >>, << IdxC, Class4 >>, << IdxL, Class5 >> >>

\* the step classifies an X at i
ClassifiesX ==
    /\ pc \in {"vec_loop", "packed_loop", "string_loop"}
    /\ i <= Len(bytes)
    /\ i' = i + 1
    /\ bytes[i] \in {88, 120}
    /\ ~utf8

\* the pushes for an X behind the letter or break l1
XClasses(l1) ==
    IF l1 \in {IdxC, IdxK, IdxQ}
    THEN << << IdxX, Class8 >> >>
    ELSE << << IdxX, Class4 >>, << IdxX, Class8 >> >>

\* the push for the letter l1 pending behind l0, in front of b
PendingPush(l0, l1, b) ==
    << << l1, IF l1 = IdxC THEN PendingCClass(l0, b) ELSE PendingClass(l1, b) >> >>

\* C22: the step that reads an X pushes its classes and leaves nothing
\* pending: Class8 alone when lookback slot 1 holds C, K or Q, Class4 and then
\* Class8 otherwise; the class of a letter pending in front of the X, a C in
\* particular, is pushed first.
C22_XResolvedAtOnce ==
    [][ClassifiesX =>
           /\ pc' = pc
           /\ emitted' = emitted
                  \o (IF prev_uncertain
                      THEN PendingPush(last[1], last[2], IdxX)
                      ELSE << >>)
                  \o XClasses(last[2])
           /\ ~prev_uncertain']_vars

\* "acx" in the packed sink: Class4 for the pending C, then Class8 alone for the X
C22_Witness ==
    /\ pc = "packed_loop"
    /\ i = 4
    /\ bytes = << 97, 99, 120 >>
    /\ emitted = << << IdxA, Class0 >>, << IdxC, Class4 >>, << IdxX, Class8 >> >>
    /\ ~prev_uncertain

\* the byte in front of position i has just been processed by a loop
Processed ==
    /\ pc \in {"vec_loop", "packed_loop", "string_loop"}
    /\ i > 1

\* C23: every byte <= 0x7F reaches the classifier, whatever the byte in front
\* of it, the lead byte 195 included: after its step the lookback window holds
\* its alphabet index, a letter is pending exactly if it is C, D, P or T, and
\* a letter with a class of its own in the table has had that class pushed.
C23_AsciiPassThrough ==
    (Processed /\ bytes[i - 1] <= 127) =>
        LET b == Letter(bytes[i - 1])
            res == CHARACTER_TO_CODE[b + 1]
        IN
        /\ last[2] = b
        /\ prev_uncertain = (b \in {IdxC, IdxD, IdxP, IdxT})
        /\ res \in 0..8 =>
               /\ Len(emitted) > 0
               /\ emitted[Len(emitted)] = << b, res >>

\* C24: in every encode call the continuation flag is off in front of the
\* first byte, and after each byte it is on if and only if that byte is 195.
C24_ContinuationFlag ==
    pc \in {"vec_loop", "packed_loop", "string_loop"} =>
        utf8 = (i > 1 /\ bytes[i - 1] = GERMAN_SPECIAL_CHAR_FIRST_BYTE)

\* the flag armed by 195 is off again behind the byte 0x9F
C24_Witness ==
    /\ pc = "packed_loop"
    /\ i = 3
    /\ bytes[1] = GERMAN_SPECIAL_CHAR_FIRST_BYTE
    /\ bytes[2] = GERMAN_SZ_SECOND_BYTE
    /\ ~utf8

\* the byte at j reaches the classifier: it is <= 0x7F and not behind 195
Classified(bs, j) ==
    /\ bs[j] <= 127
    /\ (j = 1 \/ bs[j - 1] # GERMAN_SPECIAL_CHAR_FIRST_BYTE)

\* the position of the last classified byte in front of position k, 0 for none
RECURSIVE LastClassified(_, _)
LastClassified(bs, k) ==
    IF k <= 1
    THEN 0
    ELSE IF Classified(bs, k - 1) THEN k - 1 ELSE LastClassified(bs, k - 1)

\* C25: between two byte steps a letter is pending if and only if the byte
\* classified last, dropped bytes aside, is one of C, D, P, T, and lookback
\* slot 1 then holds its index; the fallback arm of the resolution match is
\* never taken.
C25_PendingFlag ==
    /\ pc # "panic"
    /\ pc \in {"vec_loop", "packed_loop", "string_loop"} =>
           LET j == LastClassified(bytes, i) IN
           /\ prev_uncertain = (j # 0 /\ Letter(bytes[j]) \in {IdxC, IdxD, IdxP, IdxT})
           /\ prev_uncertain => last[2] = Letter(bytes[j])

\* the T is still pending behind the dropped byte 0x9F
C25_Witness ==
    /\ pc = "string_loop"
    /\ i = 3
    /\ bytes = << 116, 159, 97 >>
    /\ prev_uncertain
    /\ last = << IdxSPACE, IdxT >>

\* the step classifies the byte at i
ClassifiesByte ==
    /\ pc \in {"vec_loop", "packed_loop", "string_loop"}
    /\ i <= Len(bytes)
    /\ i' = i + 1
    /\ pc' = pc
    /\ bytes[i] <= 127
    /\ ~utf8

\* C26: both lookback slots are 26 in front of the first byte of a call, and
\* every classified byte, a silent H, a letter that becomes pending and a
\* break included, moves slot 1 to slot 0 and puts its own alphabet index (26
\* for a non-letter) into slot 1.
C26_LookbackSlide ==
    [][/\ (pc' \in {"vec_loop", "packed_loop", "string_loop"} /\ i' = 1)
              => last' = << IdxSPACE, IdxSPACE >>
       /\ ClassifiesByte => last' = << last[2], Letter(bytes[i]) >>]_vars

\* "ch" in the list sink: the pending C and the silent H are both in the window
C26_Witness ==
    /\ pc = "vec_loop"
    /\ i = 3
    /\ bytes = << 99, 104 >>
    /\ last = << IdxC, IdxH >>
    /\ emitted = << << IdxC, Class4 >> >>

\* the step processes a byte above 0x7F
SkipsNonAscii ==
    /\ pc \in {"vec_loop", "packed_loop", "string_loop"}
    /\ i <= Len(bytes)
    /\ i' = i + 1
    /\ bytes[i] > 127

ZeroOnlyAtWordStart(seq, zero, space) ==
    \A k \in 1..Len(seq) : seq[k] = zero => (k = 1 \/ seq[k - 1] = space)

\* C28: in the result of every sink, for every input, each Class0 is the first
\* element or stands directly behind a Space.
C28_Class0OnlyWordInitial ==
    pc = "done" =>
        /\ ZeroOnlyAtWordStart(outbuf, Class0, Space)
        /\ ZeroOnlyAtWordStart(decoded, Class0, Space)
        /\ ZeroOnlyAtWordStart(Elems(cv), Class0, Space)
        /\ ZeroOnlyAtWordStart(cs.inner, as_char(Class0), as_char(Space))

\* "axa a": the A behind the X is gone, the A behind the break is kept
C28_Witness ==
    /\ pc = "done"
    /\ bytes = << 97, 120, 97, 32, 97 >>
    /\ outbuf = << Class0, Class4, Class8, Space, Class0 >>
    /\ decoded = outbuf
    /\ cs.inner = Rendering(outbuf)

\* C29: after any sequence of pushes into empty sinks, nothing finalized, the
\* classes of the CologneVec read nibble by nibble are the list, and the
\* characters written by the string sink followed by its buffered classes
\* are the list's rendering.
C29_PushLevelEquivalence ==
    (pc = "api" /\ synced) =>
        /\ cv.len = Len(outbuf)
        /\ Elems(cv) = outbuf
        /\ internal_iter(cv) = outbuf
        /\ StringElems(cs) = Rendering(outbuf)
        /\ outbuf = Logical(pushed)

\* four pushes, one of them absorbed: a character written, two classes buffered
C29_Witness ==
    /\ pc = "api"
    /\ synced
    /\ pushed = << Space, Class0, Class1, Class1 >>
    /\ outbuf = << Space, Class0, Class1 >>
    /\ cv = [len |-> 3, inner |-> << Space * 16, 16 >>]
    /\ cs = [last |-> << Class0, Class1 >>, inner |-> << " " >>]

\* C30: a CologneVec that has read a, was cleared and has read b equals, in
\* len and bytes, a new one that has read b, for all inputs a and b.
C30_ReuseAfterClear ==
    pc = "reuse_done" => cv = read_from_utf8(new, bytes)

\* "tx" was read after "xc" and a clear: the first call left two classes
\* stored and its C pending
C30_Witness ==
    /\ pc = "reuse_done"
    /\ call.first = << 120, 99 >>
    /\ call.held = [len |-> 2, inner |-> << 4 * 16 + 8 >>]
    /\ bytes = << 116, 120 >>
    /\ cv = [len |-> 3, inner |-> << 2 * 16 + 4, 8 * 16 >>]

\* the sequence does not end with the break
NoTrailingSpace(seq, space) == Len(seq) = 0 \/ seq[Len(seq)] # space

\* no two neighbours of the sequence are both the break
NoAdjacentSpace(seq, space) ==
    \A k \in 1..(Len(seq) - 1) : ~(seq[k] = space /\ seq[k + 1] = space)

\* C31: for every input, the result of each sink (behind finish, behind the
\* list's push of Space and pop, behind the string's match on last) does not
\* end with Space, and no state of a sink on the way holds two adjacent Spaces.
C31_NoTrailingBreak ==
    /\ pc \notin {"vec_call", "vec_loop", "panic", "ub"} => NoTrailingSpace(outbuf, Space)
    /\ pc \in {"string_call", "string_loop", "decode", "rebuild", "done"} =>
           NoTrailingSpace(Elems(cv), Space)
    /\ pc \in {"decode", "rebuild", "done"} => NoTrailingSpace(cs.inner, as_char(Space))
    /\ pc = "done" => NoTrailingSpace(decoded, Space)
    /\ NoAdjacentSpace(outbuf, Space)
    /\ NoAdjacentSpace(Elems(cv), Space)
    /\ NoAdjacentSpace(cs.inner, as_char(Space))
    /\ pc = "string_loop" => NoAdjacentSpace(StringElems(cs), as_char(Space))

\* "a  c ": two breaks in a row inside and a break at the end, one Space in
\* the result of every sink and none at its end
C31_Witness ==
    /\ pc = "done"
    /\ bytes = << 97, 32, 32, 99, 32 >>
    /\ outbuf = << Class0, Space, Class8 >>
    /\ Elems(cv) = << Class0, Space, Class8 >>
    /\ cs.inner = << "0", " ", "8" >>

\* the first byte of bs that reaches the classifier is an ASCII non-letter
FirstClassifiedIsBreak(bs) ==
    \E p \in 1..Len(bs) :
        /\ Classified(bs, p)
        /\ IsAsciiBreak(bs[p])
        /\ \A q \in 1..(p - 1) : ~Classified(bs, q)

\* the call that returns has pushed a class for a letter
EmitsClass == \E k \in 1..Len(emitted) : emitted[k][2] # Space

\* what finalization may make of a sink: nothing, or drop its last element
KeepsFront(pre, post) == post = pre \/ post = Front(pre)

\* the result keeps the leading break of an input that starts with one and
\* has pushed a class behind it
LeadingKept(post, space) ==
    (FirstClassifiedIsBreak(bytes) /\ EmitsClass) => (Len(post) > 0 /\ post[1] = space)

\* C32: when the first classified byte of the input is an ASCII non-letter and
\* a later letter pushes a class, the result of every sink starts with Space;
\* the last statements of each call leave every element but the last where it
\* is and drop at most the last.
C32_LeadingBreakKept ==
    [][/\ (pc = "vec_loop" /\ pc' = "packed_call") =>
            /\ KeepsFront(outbuf, outbuf')
            /\ LeadingKept(outbuf', Space)
       /\ (pc = "packed_loop" /\ pc' = "string_call") =>
            /\ KeepsFront(Elems(cv), Elems(cv'))
            /\ LeadingKept(Elems(cv'), Space)
       /\ (pc = "string_loop" /\ pc' = "decode") =>
            /\ KeepsFront(StringElems(cs), cs'.inner)
            /\ LeadingKept(cs'.inner, as_char(Space))]_vars

\* " b" has become [Space, Class1] in every sink
C32_Witness ==
    /\ pc = "done"
    /\ bytes = << 32, 98 >>
    /\ outbuf = << Space, Class1 >>
    /\ Elems(cv) = << Space, Class1 >>
    /\ decoded = << Space, Class1 >>
    /\ cs.inner = << " ", "1" >>
====
